---- MODULE Spec2Model ----
(***************************************************************************)
(* State-machine model of the notebook modeling_v2.ipynb: one top-to-      *)
(* bottom run of its code cells (load, PCA, autoencoder, seven             *)
(* evaluations, SHAP attribution, model selection, persistence).           *)
(*                                                                         *)
(* Python strings are sequences of one-character strings, so that          *)
(* str.replace, str.lower, the `in` substring test and dictionary lookup   *)
(* by key are computed character by character.  Scores (accuracy, F1,      *)
(* mean |SHAP|, ...) are outputs of library routines; they are drawn from  *)
(* small integer ranges and only compared, as the code does.               *)
(***************************************************************************)
EXTENDS Integers, Sequences, FiniteSets, TLC

(***************************** bounds **************************************)
NTrain      == 3      \* rows of the training partition
MinTestRows == 999    \* smallest test partition explored
MaxTestRows == 1001   \* largest test partition explored
NFeatures   == 2      \* columns of the original feature matrices
MaxF1       == 1      \* metric levels are 0..MaxF1 (a run draws the extremes)
MaxShap     == 1      \* the largest mean |SHAP| level
MaxRows     == 3      \* rows of a free-standing comparison table
MaxTableF1  == 2      \* F1 levels of a free-standing comparison table are 0..MaxTableF1

(************************* program constants *******************************)
PCA_FINAL_COMPONENTS == 7      \* pca = PCA(n_components=7)
encoding_dim         == 7      \* encoding_dim = 7
SHAP_SAMPLE_SIZE     == 1000   \* len(X_test) > 1000 / sample(1000, ...)
SHAP_RANDOM_STATE    == 42     \* random_state=42
PCA_TRIALS           == <<5, 7, 9>>

(************************* string literals *********************************)
N_XGBoost      == <<"X", "G", "B", "o", "o", "s", "t">>
N_LightGBM     == <<"L", "i", "g", "h", "t", "G", "B", "M">>
N_XGBoost_PCA  == <<"X", "G", "B", "o", "o", "s", "t", "+", "P", "C", "A">>
N_LightGBM_PCA == <<"L", "i", "g", "h", "t", "G", "B", "M", "+", "P", "C", "A">>
N_XGBoost_AE   == <<"X", "G", "B", "o", "o", "s", "t", "+", "A", "u", "t", "o", "e", "n", "c", "o", "d", "e", "r">>
N_LightGBM_AE  == <<"L", "i", "g", "h", "t", "G", "B", "M", "+", "A", "u", "t", "o", "e", "n", "c", "o", "d", "e", "r">>
N_Stacked      == <<"S", "t", "a", "c", "k", "e", "d", " ", "E", "n", "s", "e", "m", "b", "l", "e">>
K_XGBoost      == <<"X", "G", "B", "o", "o", "s", "t">>
K_LightGBM     == <<"L", "i", "g", "h", "t", "G", "B", "M">>
K_XGBoost_PCA  == <<"X", "G", "B", "o", "o", "s", "t", " ", "w", "i", "t", "h", " ", "P", "C", "A">>
K_LightGBM_PCA == <<"L", "i", "g", "h", "t", "G", "B", "M", " ", "w", "i", "t", "h", " ", "P", "C", "A">>
K_XGBoost_AE   == <<"X", "G", "B", "o", "o", "s", "t", " ", "w", "i", "t", "h", " ", "A", "u", "t", "o", "e", "n", "c", "o", "d", "e", "r">>
K_LightGBM_AE  == <<"L", "i", "g", "h", "t", "G", "B", "M", " ", "w", "i", "t", "h", " ", "A", "u", "t", "o", "e", "n", "c", "o", "d", "e", "r">>
K_Stacked      == <<"S", "t", "a", "c", "k", "e", "d", " ", "E", "n", "s", "e", "m", "b", "l", "e">>
S_PCA          == <<"P", "C", "A">>
S_Autoencoder  == <<"A", "u", "t", "o", "e", "n", "c", "o", "d", "e", "r">>
S_models_dir   == <<"m", "o", "d", "e", "l", "s">>
S_pkl          == <<".", "p", "k", "l">>
S_pca_transformer     == <<"p", "c", "a", "_", "t", "r", "a", "n", "s", "f", "o", "r", "m", "e", "r", ".", "p", "k", "l">>
S_autoencoder_encoder == <<"a", "u", "t", "o", "e", "n", "c", "o", "d", "e", "r", "_", "e", "n", "c", "o", "d", "e", "r", ".", "h", "5">>
S_stacked_ensemble    == <<"s", "t", "a", "c", "k", "e", "d", "_", "e", "n", "s", "e", "m", "b", "l", "e", ".", "p", "k", "l">>
S_feature_importance  == <<"f", "e", "a", "t", "u", "r", "e", "_", "i", "m", "p", "o", "r", "t", "a", "n", "c", "e", ".", "c", "s", "v">>
UpperCase == <<"A", "B", "C", "D", "E", "F", "G", "H", "I", "J", "K", "L", "M", "N", "O", "P", "Q", "R", "S", "T", "U", "V", "W", "X", "Y", "Z">>
LowerCase == <<"a", "b", "c", "d", "e", "f", "g", "h", "i", "j", "k", "l", "m", "n", "o", "p", "q", "r", "s", "t", "u", "v", "w", "x", "y", "z">>

(************************* string operations *******************************)
\* str.replace(old, new) for single-character old and new
StrReplaceFirst(s, old, new) ==
    [i \in 1..Len(s) |->
        IF s[i] = old /\ (\A j \in 1..(i - 1) : s[j] # old) THEN new ELSE s[i]]

StrReplace(s, old, new) == [i \in 1..Len(s) |-> IF s[i] = old THEN new ELSE s[i]]

\* lower-casing of one character
LowerChar(c) ==
    IF \E k \in 1..Len(UpperCase) : UpperCase[k] = c
    THEN LowerCase[CHOOSE k \in 1..Len(UpperCase) : UpperCase[k] = c]
    ELSE c

\* str.lower()
StrLower(s) == [i \in 1..Len(s) |-> LowerChar(s[i])]

\* the substring test  sub in s
StrContains(sub, s) ==
    \E i \in 0..(Len(s) - Len(sub)) :
        \A j \in 1..Len(sub) : s[i + j] = sub[j]

\* os.path.join(dir, name)
PathJoin(dir, name) == dir \o <<"/">> \o name

(************************* the comparison-table names **********************)
\* models = ['XGBoost', 'LightGBM', 'XGBoost+PCA', ...]
models == <<N_XGBoost, N_LightGBM, N_XGBoost_PCA, N_LightGBM_PCA,
            N_XGBoost_AE, N_LightGBM_AE, N_Stacked>>

\* results = [xgb_results, lgb_results, ...] : the variables holding the bundles
results == <<"xgb_results", "lgb_results", "xgb_pca_results", "lgb_pca_results",
             "xgb_ae_results", "lgb_ae_results", "stacked_results">>

\* model_results_map = {'XGBoost': xgb_results, ..., 'XGBoost with PCA': ...}
model_results_map ==
    << <<K_XGBoost, "xgb_results">>,
       <<K_LightGBM, "lgb_results">>,
       <<K_XGBoost_PCA, "xgb_pca_results">>,
       <<K_LightGBM_PCA, "lgb_pca_results">>,
       <<K_XGBoost_AE, "xgb_ae_results">>,
       <<K_LightGBM_AE, "lgb_ae_results">>,
       <<K_Stacked, "stacked_results">> >>

\* dict.get(key): the positions of the entries whose key equals key
\* (empty when the key is absent, and then .get returns None)
MapGet(map, key) == {i \in 1..Len(map) : map[i][1] = key}

(************************* generic helpers *********************************)
Range(s) == {s[i] : i \in 1..Len(s)}

\* an optional value: <<>> is None, <<v>> is the value v
None    == <<>>
Some(v) == <<v>>

(************************* the notebook's state ****************************)
VARIABLES
    pc,              \* the cell (or loop iteration) to run next
    err,             \* the unhandled exception that stopped the run, or ""
    out,             \* printed messages, in order
    bound,           \* names bound in the kernel's global namespace
    data_file,       \* data/preprocessed_data.pkl as found on disk
    heap,            \* estimator objects by creation site
    fit_log,         \* every fit call made so far: estimator and what it was given
    X_train, X_test, y_train, y_test,
    trial,           \* position in the loop over [5, 7, 9]
    pca, X_train_pca, X_test_pca,
    encoder_model, X_train_encoded, X_test_encoded,
    res,             \* the seven result bundles, by variable name
    comparison_df,
    shap_values, X_test_sample, feature_importance,
    shap_values_lgb, feature_importance_merged,
    best_model_name, best_model_f1,
    dirs, files,     \* directories and files written by the run
    write_log,       \* the paths written, one entry per write, in order
    unit             \* a free-standing call of evaluate_model or of the selection

envVars  == <<data_file>>
dataVars == <<X_train, X_test, y_train, y_test>>
pcaVars  == <<trial, pca, X_train_pca, X_test_pca>>
aeVars   == <<encoder_model, X_train_encoded, X_test_encoded>>
evalVars == <<res, comparison_df>>
shapVars == <<shap_values, X_test_sample, feature_importance,
              shap_values_lgb, feature_importance_merged>>
selVars  == <<best_model_name, best_model_f1>>
fsVars   == <<dirs, files, write_log>>
vars == <<pc, err, out, bound, data_file, heap, fit_log, dataVars, pcaVars,
          aeVars, evalVars, shapVars, selVars, fsVars, unit>>

(************************* values ******************************************)
\* The index of a table: its row labels in row order.  The labels of a
\* partition of n rows are 1..n; an index holds `take` of them, starting
\* after label `shift` and continuing cyclically.  Rows gives the labels.
RangeIndex(n) == [n |-> n, shift |-> 0, take |-> n]
NoIndex       == [n |-> 0, shift |-> 0, take |-> 0]
Rows(ix)      == [i \in 1..ix.take |-> ((ix.shift + i - 1) % ix.n) + 1]
NRows(ix)     == ix.take

\* what an estimator has been fitted on; count = 0 means never fitted
NoFit == [on |-> "none", repr |-> "none", index |-> NoIndex, cols |-> 0, y |-> "none",
          count |-> 0]

\* a feature matrix: partition it belongs to, index, number of columns,
\* representation, and the fitted state of the transform that produced it
Matrix(part, n, cols) ==
    [part |-> part, index |-> RangeIndex(n), cols |-> cols,
     repr |-> "orig", by |-> NoFit]
NoMatrix == [part |-> "unbound", index |-> NoIndex, cols |-> 0, repr |-> "none", by |-> NoFit]

\* a label vector, aligned by index label with its matrix
Labels(part, n) == [part |-> part, index |-> RangeIndex(n)]
NoLabels == [part |-> "unbound", index |-> NoIndex]

\* an estimator object: n is n_components / encoding_dim (0 for classifiers),
\* proba says whether the object exposes predict_proba
Estimator(kind, n, proba) == [kind |-> kind, n |-> n, proba |-> proba, fitted |-> NoFit]

NoBundle == [model |-> "none", accuracy |-> 0, precision |-> 0, recall |-> 0,
             f1 |-> 0, auc |-> None]

LoadKeys == <<"X_train", "X_test", "y_train", "y_test", "feature_names">>

\* the states the input artifact can be in
DataFiles ==
    {[state |-> "missing", keys |-> {}, ntest |-> 0],
     [state |-> "corrupt", keys |-> {}, ntest |-> 0]}
    \cup {[state |-> "ok", keys |-> Range(LoadKeys), ntest |-> n] :
            n \in MinTestRows..MaxTestRows}
    \cup {[state |-> "ok", keys |-> Range(LoadKeys) \ {k}, ntest |-> MaxTestRows] :
            k \in Range(LoadKeys)}

\* a fresh kernel: nothing bound, nothing printed, nothing written
FreshKernel ==
    /\ err = ""
    /\ out = <<>>
    /\ bound = {}
    /\ heap = <<>>
    /\ fit_log = {}
    /\ X_train = NoMatrix /\ X_test = NoMatrix
    /\ y_train = NoLabels /\ y_test = NoLabels
    /\ trial = 1
    /\ pca = "none" /\ X_train_pca = NoMatrix /\ X_test_pca = NoMatrix
    /\ encoder_model = "none" /\ X_train_encoded = NoMatrix /\ X_test_encoded = NoMatrix
    /\ res = [v \in Range(results) |-> NoBundle]
    /\ comparison_df = <<>>
    /\ shap_values = [index |-> NoIndex, model |-> "none"]
    /\ X_test_sample = NoMatrix
    /\ feature_importance = <<>>
    /\ shap_values_lgb = [index |-> NoIndex, model |-> "none"]
    /\ feature_importance_merged = <<>>
    /\ best_model_name = <<>> /\ best_model_f1 = 0
    /\ dirs = {} /\ files = <<>> /\ write_log = <<>>

Init ==
    /\ pc = "load"
    /\ data_file \in DataFiles
    /\ unit = [op |-> "none"]
    /\ FreshKernel

\* an unhandled exception ends the run at the statement that raised it
Raise(e) == pc' = "halted" /\ err' = e

(************************* cell: load preprocessed data ********************)
LoadedPrefixAll(f) == IF f.state # "ok" THEN 0 ELSE Len(LoadKeys)

\* number of leading assignments of the try block that succeed
LoadedPrefix(f) ==
    IF f.state # "ok" THEN 0
    ELSE IF \A i \in 1..Len(LoadKeys) : LoadKeys[i] \in f.keys THEN Len(LoadKeys)
    ELSE (CHOOSE i \in 1..Len(LoadKeys) :
             /\ LoadKeys[i] \notin f.keys
             /\ \A j \in 1..(i - 1) : LoadKeys[j] \in f.keys) - 1

Load ==
    /\ pc = "load"
    /\ LET p  == LoadedPrefix(data_file)
           ok == p = Len(LoadKeys)
       IN /\ bound' = bound \cup {LoadKeys[i] : i \in 1..p}
                            \cup (IF data_file.state = "ok" THEN {"preprocessed_data"} ELSE {})
          /\ X_train' = IF p >= 1 THEN Matrix("train", NTrain, NFeatures) ELSE X_train
          /\ X_test'  = IF p >= 2 THEN Matrix("test", data_file.ntest, NFeatures) ELSE X_test
          /\ y_train' = IF p >= 3 THEN Labels("train", NTrain) ELSE y_train
          /\ y_test'  = IF p >= 4 THEN Labels("test", data_file.ntest) ELSE y_test
          /\ out' = out \o <<"Loading preprocessed data...">>
                        \o (IF ok THEN <<"Data loaded successfully">>
                                  ELSE <<"Error loading preprocessed data">>)
    /\ pc' = "pca_trial"
    /\ UNCHANGED <<err, data_file, heap, fit_log, pcaVars, aeVars, evalVars,
                   shapVars, selVars, fsVars, unit>>

(************************* cell: PCA ***************************************)
\* estimator.fit(X, y): the fitted state now depends on X (and y) only
EstFit(est, X, ylab) ==
    [est EXCEPT !.fitted = [on |-> X.part, repr |-> X.repr, index |-> X.index,
                            cols |-> X.cols, y |-> ylab.part, count |-> @.count + 1]]

FitEntry(site, est, X, ylab) ==
    [site |-> site, kind |-> est.kind, X |-> X.part, y |-> ylab.part]

TransformRefit(est, X, repr) ==
    [part |-> X.part, index |-> X.index, cols |-> est.n, repr |-> repr,
     by |-> EstFit(est, X, X).fitted]

\* pca.transform(X) / encoder_model.predict(X): one output row per input row,
\* in the input's row order, est.n columns; the estimator is not changed
Transform(est, X, repr) ==
    [part |-> X.part, index |-> X.index, cols |-> est.n, repr |-> repr, by |-> est.fitted]

\* the body shared by a trial iteration and the final PCA:
\*   pca = PCA(n_components=n); X_train_pca = pca.fit_transform(X_train);
\*   X_test_pca = pca.transform(X_test)
PCABody(site, n, nextpc) ==
    LET fresh  == Estimator("PCA", n, FALSE)
        fitted == EstFit(fresh, X_train, X_train)
    IN /\ pca' = site
       /\ IF "X_train" \notin bound
          THEN /\ heap' = (site :> fresh) @@ heap
               /\ bound' = bound \cup {"pca"}
               /\ Raise("NameError")
               /\ UNCHANGED <<fit_log, X_train_pca, X_test_pca>>
          ELSE /\ heap' = (site :> fitted) @@ heap
               /\ fit_log' = fit_log \cup {FitEntry(site, fresh, X_train, X_train)}
               /\ X_train_pca' = Transform(fitted, X_train, "pca")
               /\ IF "X_test" \notin bound
                  THEN /\ bound' = bound \cup {"pca", "X_train_pca"}
                       /\ Raise("NameError")
                       /\ UNCHANGED X_test_pca
                  ELSE /\ bound' = bound \cup {"pca", "X_train_pca", "X_test_pca"}
                       /\ X_test_pca' = Transform(fitted, X_test, "pca")
                       /\ pc' = nextpc
                       /\ UNCHANGED err

TrialSite(n) == CASE n = 5 -> "PCA(5)" [] n = 7 -> "PCA(7)" [] OTHER -> "PCA(9)"

PCATrial ==
    /\ pc = "pca_trial"
    /\ PCABody(TrialSite(PCA_TRIALS[trial]), PCA_TRIALS[trial],
               IF trial = Len(PCA_TRIALS) THEN "pca_final" ELSE "pca_trial")
    /\ trial' = IF trial = Len(PCA_TRIALS) THEN trial ELSE trial + 1
    /\ UNCHANGED <<out, data_file, dataVars, aeVars, evalVars, shapVars, selVars,
                   fsVars, unit>>

PCAFinalSkipped ==
    /\ pc = "pca_final"
    /\ pc' = "autoencoder"
    /\ UNCHANGED <<err, out, bound, data_file, heap, fit_log, dataVars, pcaVars, aeVars,
                   evalVars, shapVars, selVars, fsVars, unit>>

\* pca = PCA(n_components=7) and the two projections that follow the trial loop
PCAFinal ==
    /\ pc = "pca_final"
    /\ PCABody("pca", PCA_FINAL_COMPONENTS, "autoencoder")
    /\ UNCHANGED <<out, data_file, dataVars, trial, aeVars, evalVars, shapVars,
                   selVars, fsVars, unit>>

(************************* cell: autoencoder *******************************)
Autoencoder ==
    /\ pc = "autoencoder"
    /\ LET fresh  == Estimator("Autoencoder", encoding_dim, FALSE)
           fitted == EstFit(fresh, X_train, X_train)
           \* encoder_model shares the trained layers of the autoencoder
           enc    == [fitted EXCEPT !.kind = "Encoder"]
       IN IF "X_train" \notin bound
          THEN /\ Raise("NameError")
               /\ UNCHANGED <<bound, heap, fit_log, aeVars>>
          ELSE /\ heap' = ("autoencoder" :> fitted) @@ ("encoder_model" :> enc) @@ heap
               /\ fit_log' = fit_log \cup {FitEntry("autoencoder", fresh, X_train, X_train)}
               /\ encoder_model' = "encoder_model"
               /\ X_train_encoded' = Transform(enc, X_train, "ae")
               /\ IF "X_test" \notin bound
                  THEN /\ bound' = bound \cup {"autoencoder", "encoder_model", "X_train_encoded"}
                       /\ Raise("NameError")
                       /\ UNCHANGED X_test_encoded
                  ELSE /\ bound' = bound \cup {"autoencoder", "encoder_model",
                                               "X_train_encoded", "X_test_encoded"}
                       /\ X_test_encoded' = Transform(enc, X_test, "ae")
                       /\ pc' = "eval_1"
                       /\ UNCHANGED err
    /\ UNCHANGED <<out, data_file, dataVars, pcaVars, evalVars, shapVars, selVars,
                   fsVars, unit>>

(************************* evaluate_model **********************************)
\* evaluate_model(model, X_train, X_test, y_train, y_test, model_name), with
\* o the scores the metric routines return for the predictions.  The result
\* is the fitted estimator, the fit call made, and the returned bundle
\* (whose 'model' entry refers to the estimator object at site).
\* raised # "" means the call ended in that exception and returned nothing.
EvaluateModelZeroAuc(site, model, Xtr, Xte, ytr, yte, o) ==
    LET fitted == EstFit(model, Xtr, ytr)
        auc    == IF fitted.proba THEN Some(o.auc) ELSE Some(0)
    IN [raised |-> IF NRows(Xtr.index) # NRows(ytr.index) \/ Xtr.cols # Xte.cols
                      \/ NRows(Xte.index) # NRows(yte.index)
                   THEN "ValueError" ELSE "",
        fitted |-> fitted,
        log    |-> FitEntry(site, model, Xtr, ytr),
        bundle |-> [model |-> site, accuracy |-> o.accuracy, precision |-> o.precision,
                    recall |-> o.recall, f1 |-> o.f1, auc |-> auc]]

EvaluateModel(site, model, Xtr, Xte, ytr, yte, o) ==
    LET fitted == EstFit(model, Xtr, ytr)                       \* model.fit
        auc    == IF fitted.proba THEN Some(o.auc) ELSE None    \* try / except AttributeError
    IN [raised |-> IF NRows(Xtr.index) # NRows(ytr.index) \/ Xtr.cols # Xte.cols
                      \/ NRows(Xte.index) # NRows(yte.index)
                   THEN "ValueError" ELSE "",
        fitted |-> fitted,
        log    |-> FitEntry(site, model, Xtr, ytr),
        bundle |-> [model |-> site, accuracy |-> o.accuracy, precision |-> o.precision,
                    recall |-> o.recall, f1 |-> o.f1, auc |-> auc]]

\* the scores drawn for one evaluation of the run: every metric at the
\* lowest level, or every metric at the highest
RunScores == {[accuracy |-> f, precision |-> f, recall |-> f, f1 |-> f, auc |-> f] :
                f \in {0, MaxF1}}

Mat(name) ==
    CASE name = "X_train" -> X_train
      [] name = "X_test" -> X_test
      [] name = "X_train_pca" -> X_train_pca
      [] name = "X_test_pca" -> X_test_pca
      [] name = "X_train_encoded" -> X_train_encoded
      [] name = "X_test_encoded" -> X_test_encoded

\* xgb.XGBClassifier(...) and lgb.LGBMClassifier(...): both expose predict_proba
XGBClassifier  == Estimator("XGBClassifier", 0, TRUE)
LGBMClassifier == Estimator("LGBMClassifier", 0, TRUE)

EvalCallsSharedModel ==
    << [pc |-> "eval_1", next |-> "eval_2", var |-> "xgb_results", site |-> "xgb_model",
        creates |-> ("xgb_model" :> XGBClassifier) @@ ("lgb_model" :> LGBMClassifier),
        defs |-> {"evaluate_model", "xgb_model", "lgb_model"},
        xtr |-> "X_train", xte |-> "X_test"],
       [pc |-> "eval_2", next |-> "eval_3", var |-> "lgb_results", site |-> "lgb_model",
        creates |-> <<>>, defs |-> {},
        xtr |-> "X_train", xte |-> "X_test"],
       [pc |-> "eval_3", next |-> "eval_4", var |-> "xgb_pca_results", site |-> "xgb_model",
        creates |-> <<>>, defs |-> {},
        xtr |-> "X_train_pca", xte |-> "X_test_pca"],
       [pc |-> "eval_4", next |-> "eval_5", var |-> "lgb_pca_results", site |-> "lgb_model",
        creates |-> <<>>, defs |-> {},
        xtr |-> "X_train_pca", xte |-> "X_test_pca"],
       [pc |-> "eval_5", next |-> "eval_6", var |-> "xgb_ae_results", site |-> "XGBClassifier@ae",
        creates |-> ("XGBClassifier@ae" :> XGBClassifier), defs |-> {},
        xtr |-> "X_train_encoded", xte |-> "X_test_encoded"],
       [pc |-> "eval_6", next |-> "stack", var |-> "lgb_ae_results", site |-> "LGBMClassifier@ae",
        creates |-> ("LGBMClassifier@ae" :> LGBMClassifier), defs |-> {},
        xtr |-> "X_train_encoded", xte |-> "X_test_encoded"] >>

\* the six evaluate_model calls of the base, PCA and autoencoder cells:
\* the variable assigned, the estimator evaluated, the estimators constructed
\* just before the call, and the matrices passed
EvalCalls ==
    << [pc |-> "eval_1", next |-> "eval_2", var |-> "xgb_results", site |-> "xgb_model",
        creates |-> ("xgb_model" :> XGBClassifier) @@ ("lgb_model" :> LGBMClassifier),
        defs |-> {"evaluate_model", "xgb_model", "lgb_model"},
        xtr |-> "X_train", xte |-> "X_test"],
       [pc |-> "eval_2", next |-> "eval_3", var |-> "lgb_results", site |-> "lgb_model",
        creates |-> <<>>, defs |-> {},
        xtr |-> "X_train", xte |-> "X_test"],
       [pc |-> "eval_3", next |-> "eval_4", var |-> "xgb_pca_results", site |-> "XGBClassifier@pca",
        creates |-> ("XGBClassifier@pca" :> XGBClassifier), defs |-> {},
        xtr |-> "X_train_pca", xte |-> "X_test_pca"],
       [pc |-> "eval_4", next |-> "eval_5", var |-> "lgb_pca_results", site |-> "LGBMClassifier@pca",
        creates |-> ("LGBMClassifier@pca" :> LGBMClassifier), defs |-> {},
        xtr |-> "X_train_pca", xte |-> "X_test_pca"],
       [pc |-> "eval_5", next |-> "eval_6", var |-> "xgb_ae_results", site |-> "XGBClassifier@ae",
        creates |-> ("XGBClassifier@ae" :> XGBClassifier), defs |-> {},
        xtr |-> "X_train_encoded", xte |-> "X_test_encoded"],
       [pc |-> "eval_6", next |-> "stack", var |-> "lgb_ae_results", site |-> "LGBMClassifier@ae",
        creates |-> ("LGBMClassifier@ae" :> LGBMClassifier), defs |-> {},
        xtr |-> "X_train_encoded", xte |-> "X_test_encoded"] >>

EvalCall(i) ==
    LET c     == EvalCalls[i]
        heap1 == c.creates @@ heap
    IN /\ pc = c.pc
       /\ IF {c.xtr, c.xte, "y_train", "y_test"} \subseteq bound
          THEN \E o \in RunScores :
                 LET r == EvaluateModel(c.site, heap1[c.site], Mat(c.xtr), Mat(c.xte),
                                        y_train, y_test, o)
                 IN /\ heap' = (c.site :> r.fitted) @@ heap1
                    /\ fit_log' = fit_log \cup {r.log}
                    /\ IF r.raised = ""
                       THEN /\ res' = [res EXCEPT ![c.var] = r.bundle]
                            /\ bound' = bound \cup c.defs \cup {c.var}
                            /\ out' = out \o <<"Performance:">>
                            /\ pc' = c.next
                            /\ UNCHANGED err
                       ELSE /\ bound' = bound \cup c.defs
                            /\ Raise(r.raised)
                            /\ UNCHANGED <<res, out>>
          ELSE /\ heap' = heap1
               /\ bound' = bound \cup c.defs
               /\ Raise("NameError")
               /\ UNCHANGED <<fit_log, res, out>>
       /\ UNCHANGED <<data_file, dataVars, pcaVars, aeVars, comparison_df,
                      shapVars, selVars, fsVars, unit>>

Evaluate == \E i \in 1..Len(EvalCalls) : EvalCall(i)

(************************* cell: stacked ensemble **************************)
ComparisonTableReversed(names, bundles) ==
    [i \in 1..Len(names) |->
        LET b == bundles[Len(names) + 1 - i]
        IN [index |-> i - 1, Model |-> names[i],
            Accuracy |-> b.accuracy, Precision |-> b.precision,
            Recall |-> b.recall, F1_Score |-> b.f1, AUC |-> b.auc]]

\* comparison_df = pd.DataFrame({'Model': models, 'Accuracy': [...], ...}):
\* row i pairs models[i] with the metrics of results[i]; index labels 0..6
ComparisonTable(names, bundles) ==
    [i \in 1..Len(names) |->
        [index |-> i - 1, Model |-> names[i],
         Accuracy |-> bundles[i].accuracy, Precision |-> bundles[i].precision,
         Recall |-> bundles[i].recall, F1_Score |-> bundles[i].f1,
         AUC |-> bundles[i].auc]]

Stack ==
    /\ pc = "stack"
    /\ LET heap1 == ("estimators.xgb" :> XGBClassifier) @@ ("estimators.lgb" :> LGBMClassifier)
                    @@ ("final_estimator" :> Estimator("RandomForest", 0, TRUE))
                    \* the stack exposes predict_proba because its final estimator does
                    @@ ("stacked_model" :> Estimator("Stacking", 0, TRUE)) @@ heap
       IN IF {"X_train", "X_test", "y_train", "y_test"} \subseteq bound
          THEN \E o \in RunScores :
                 LET r    == EvaluateModel("stacked_model", heap1["stacked_model"],
                                           X_train, X_test, y_train, y_test, o)
                     res1 == [res EXCEPT !["stacked_results"] = r.bundle]
                 IN /\ heap' = ("stacked_model" :> r.fitted) @@ heap1
                    /\ fit_log' = fit_log \cup {r.log}
                    /\ IF r.raised # ""
                       THEN /\ bound' = bound \cup {"estimators", "stacked_model"}
                            /\ Raise(r.raised)
                            /\ UNCHANGED <<res, comparison_df, out>>
                       ELSE /\ res' = res1
                            /\ out' = out \o <<"Performance:">>
                            /\ IF Range(results) \subseteq bound \cup {"stacked_results"}
                               THEN /\ comparison_df' =
                                          ComparisonTable(models, [k \in 1..Len(results) |-> res1[results[k]]])
                                    /\ bound' = bound \cup {"estimators", "stacked_model",
                                                  "stacked_results", "models", "results", "comparison_df"}
                                    /\ pc' = "shap_xgb"
                                    /\ UNCHANGED err
                               ELSE /\ bound' = bound \cup {"estimators", "stacked_model",
                                                  "stacked_results", "models"}
                                    /\ Raise("NameError")
                                    /\ UNCHANGED comparison_df
          ELSE /\ heap' = heap1
               /\ bound' = bound \cup {"estimators", "stacked_model"}
               /\ Raise("NameError")
               /\ UNCHANGED <<fit_log, res, comparison_df, out>>
    /\ UNCHANGED <<data_file, dataVars, pcaVars, aeVars, shapVars, selVars, fsVars, unit>>

(************************* data-frame operations ***************************)
\* argsort of keys[1..k] in descending order, ties in their original order
\* (the order pandas' sort gives on tables this small)
RECURSIVE ArgsortDesc(_, _)
ArgsortDesc(keys, k) ==
    IF k = 0 THEN <<>>
    ELSE LET prev == ArgsortDesc(keys, k - 1)
             pos  == Cardinality({j \in 1..(k - 1) : keys[prev[j]] >= keys[k]})
         IN SubSeq(prev, 1, pos) \o <<k>> \o SubSeq(prev, pos + 1, k - 1)

SortValuesUnsorted(df, keys) == df

\* df.sort_values(col, ascending=False), keys being the column col of df
SortValuesDesc(df, keys) ==
    LET perm == ArgsortDesc(keys, Len(df))
    IN [i \in 1..Len(df) |-> df[perm[i]]]

\* df.reset_index(drop=True)
ResetIndex(df) == [i \in 1..Len(df) |-> [df[i] EXCEPT !.index = i - 1]]

\* Series.idxmax(): scan the values in table order keeping the position of
\* the first largest one; the result is that row's index label
RECURSIVE ArgMaxScanLast(_, _, _)
ArgMaxScanLast(vals, i, best) ==
    IF i > Len(vals) THEN best
    ELSE ArgMaxScanLast(vals, i + 1, IF vals[i] >= vals[best] THEN i ELSE best)

RECURSIVE ArgMaxScan(_, _, _)
ArgMaxScan(vals, i, best) ==
    IF i > Len(vals) THEN best
    ELSE ArgMaxScan(vals, i + 1, IF vals[i] > vals[best] THEN i ELSE best)

IdxMax(df, vals) == df[ArgMaxScan(vals, 2, 1)].index

\* df.loc[label]
Loc(df, label) == df[CHOOSE i \in 1..Len(df) : df[i].index = label]

F1Column(df) == [i \in 1..Len(df) |-> df[i].F1_Score]

(************************* cells: SHAP attribution *************************)
\* X.sample(k, random_state=rs) of a matrix holding a whole partition:
\* k distinct rows of X in an order fixed by (rs, len(X)); the permutation
\* the seeded generator draws is represented by a rotation by rs + 1
Sample(X, k, rs) ==
    [X EXCEPT !.index = [n |-> @.n, shift |-> (@.shift + rs + 1) % @.n, take |-> k]]

\* the rows handed to explainer.shap_values
ShapInput(X) ==
    IF NRows(X.index) > SHAP_SAMPLE_SIZE
    THEN Sample(X, SHAP_SAMPLE_SIZE, SHAP_RANDOM_STATE)
    ELSE X

PlotSampleOtherSeed(X) ==
    IF NRows(X.index) > SHAP_SAMPLE_SIZE
    THEN Sample(X, SHAP_SAMPLE_SIZE, SHAP_RANDOM_STATE + 1)
    ELSE X

\* the rows assigned to X_test_sample
PlotSample(X) ==
    IF NRows(X.index) > SHAP_SAMPLE_SIZE
    THEN Sample(X, SHAP_SAMPLE_SIZE, SHAP_RANDOM_STATE)
    ELSE X

\* explainer.shap_values(X): one row of attribution values per row of X,
\* in X's row order, for the model the explainer was built on
ShapValues(site, X) == [index |-> X.index, model |-> site]

ShapXGB ==
    /\ pc = "shap_xgb"
    /\ IF {"xgb_results", "X_test"} \subseteq bound
       THEN /\ shap_values' = ShapValues(res["xgb_results"].model, ShapInput(X_test))
            /\ X_test_sample' = PlotSample(X_test)
            /\ bound' = bound \cup {"explainer", "shap_values", "X_test_sample"}
            /\ pc' = "shap_detail"
            /\ UNCHANGED err
       ELSE /\ Raise("NameError")
            /\ UNCHANGED <<bound, shap_values, X_test_sample>>
    /\ UNCHANGED <<out, data_file, heap, fit_log, dataVars, pcaVars, aeVars, evalVars,
                   feature_importance, shap_values_lgb, feature_importance_merged,
                   selVars, fsVars, unit>>

\* the mean |SHAP| vectors np.abs(shap_values).mean(0) is drawn from: all
\* features equal, or one feature (any one) above the others by any level
MeanAbsShap ==
    {[i \in 1..NFeatures |-> 0]}
    \cup {[i \in 1..NFeatures |-> IF i = p THEN v ELSE 0] :
             p \in 1..NFeatures, v \in 1..MaxShap}

\* pd.DataFrame(list(zip(X_test.columns, mean_abs_shap)), columns=[...])
ImportanceTable(m) == [i \in 1..NFeatures |-> [Feature |-> i, SHAP_Importance |-> m[i]]]

ShapColumn(df) == [i \in 1..Len(df) |-> df[i].SHAP_Importance]

ShapDetail ==
    /\ pc = "shap_detail"
    /\ IF {"shap_values", "X_test", "X_test_sample"} \subseteq bound
       THEN \E m \in MeanAbsShap :
              LET fi == ImportanceTable(m)
              IN /\ feature_importance' = SortValuesDesc(fi, ShapColumn(fi))
                 /\ bound' = bound \cup {"mean_abs_shap", "feature_importance"}
                 /\ out' = out \o <<"Top 5 features by SHAP importance:">>
                 \* force plots of shap_values[i,:] for i in range(3)
                 /\ IF NRows(shap_values.index) < 3
                    THEN Raise("IndexError")
                    ELSE pc' = "shap_lgb" /\ UNCHANGED err
       ELSE /\ Raise("NameError")
            /\ UNCHANGED <<bound, out, feature_importance>>
    /\ UNCHANGED <<data_file, heap, fit_log, dataVars, pcaVars, aeVars, evalVars,
                   shap_values, X_test_sample, shap_values_lgb,
                   feature_importance_merged, selVars, fsVars, unit>>

\* left.merge(right, on='Feature'): for each row of left, in left's order,
\* the rows of right with the same Feature
RECURSIVE MergeOnFeature(_, _)
MergeOnFeature(left, right) ==
    IF left = <<>> THEN <<>>
    ELSE LET l == Head(left)
             matches == SelectSeq(right, LAMBDA r : r.Feature = l.Feature)
         IN [j \in 1..Len(matches) |->
                [Feature |-> l.Feature, SHAP_Importance |-> l.SHAP_Importance,
                 SHAP_Importance_LGB |-> matches[j].SHAP_Importance_LGB]]
            \o MergeOnFeature(Tail(left), right)

ShapLGB ==
    /\ pc = "shap_lgb"
    /\ IF {"lgb_results", "X_test", "feature_importance"} \subseteq bound
       THEN \E m \in MeanAbsShap :
              LET lgbfi  == [i \in 1..NFeatures |-> [Feature |-> i, SHAP_Importance_LGB |-> m[i]]]
                  merged == MergeOnFeature(feature_importance, lgbfi)
              IN /\ shap_values_lgb' = ShapValues(res["lgb_results"].model, ShapInput(X_test))
                 /\ X_test_sample' = PlotSample(X_test)
                 /\ feature_importance_merged' = SortValuesDesc(merged, ShapColumn(merged))
                 /\ bound' = bound \cup {"explainer_lgb", "shap_values_lgb", "mean_abs_shap_lgb",
                                         "feature_importance_lgb", "feature_importance_merged"}
                 /\ out' = out \o <<"Feature importance comparison between XGBoost and LightGBM:">>
                 /\ pc' = "select"
                 /\ UNCHANGED err
       ELSE /\ Raise("NameError")
            /\ UNCHANGED <<bound, out, shap_values_lgb, X_test_sample, feature_importance_merged>>
    /\ UNCHANGED <<data_file, heap, fit_log, dataVars, pcaVars, aeVars, evalVars,
                   shap_values, feature_importance, selVars, fsVars, unit>>

(************************* cell: model selection ***************************)
\* best_model_idx = comparison_df['F1 Score'].idxmax() and the two .loc reads
SelectBest(df) ==
    LET best_model_idx == IdxMax(df, F1Column(df))
    IN [idx |-> best_model_idx,
        name |-> Loc(df, best_model_idx).Model,
        f1 |-> Loc(df, best_model_idx).F1_Score]

Select ==
    /\ pc = "select"
    /\ IF {"comparison_df", "feature_importance"} \cup Range(results) \subseteq bound
       THEN /\ best_model_name' = SelectBest(comparison_df).name
            /\ best_model_f1' = SelectBest(comparison_df).f1
            /\ comparison_df' = ResetIndex(SortValuesDesc(comparison_df, F1Column(comparison_df)))
            /\ bound' = bound \cup {"best_model_idx", "best_model_name", "best_model_f1"}
            /\ out' = out \o <<"The best performing model is">>
            /\ pc' = "save"
            /\ UNCHANGED err
       ELSE /\ Raise("NameError")
            /\ UNCHANGED <<bound, out, best_model_name, best_model_f1, comparison_df>>
    /\ UNCHANGED <<data_file, heap, fit_log, dataVars, pcaVars, aeVars, res,
                   shapVars, fsVars, unit>>

(************************* cell: save best model ***************************)
ModelPathKeepCase(name) == PathJoin(S_models_dir, StrReplace(name, " ", "_") \o S_pkl)

\* model_path = os.path.join('models', f"{best_model_name.replace(' ', '_').lower()}.pkl")
ModelPath(name) == PathJoin(S_models_dir, StrLower(StrReplace(name, " ", "_")) \o S_pkl)

\* joblib.dump(obj, path) / model.save(path) / df.to_csv(path) on the disk fs
\* (its files and the log of writes): the file at path now holds content,
\* replacing what was there, and one more write is logged
WriteFile(fs, path, content) ==
    [files |-> (path :> content) @@ fs.files, log |-> Append(fs.log, path)]

BestModelResultDefault(name) ==
    LET hits == MapGet(model_results_map, name)
    IN IF hits = {} THEN Some("stacked_results")
       ELSE Some(model_results_map[CHOOSE i \in hits : TRUE][2])

\* the value model_results_map.get(name) : the bundle variable, or None
BestModelResult(name) ==
    LET hits == MapGet(model_results_map, name)
    IN IF hits = {} THEN None
       ELSE Some(model_results_map[CHOOSE i \in hits : TRUE][2])

SaveFoundSkipped(fs, name, var) == fs

\* the body of  if best_model_result:  applied to the files fs
SaveFound(fs, name, var) ==
    LET f1 == WriteFile(fs, ModelPath(name),
                        [kind |-> "model", site |-> res[var].model,
                         obj |-> heap[res[var].model]])
        f2 == IF StrContains(S_PCA, name)
              THEN WriteFile(f1, PathJoin(S_models_dir, S_pca_transformer),
                             [kind |-> "pca", site |-> pca, obj |-> heap[pca]])
              ELSE IF StrContains(S_Autoencoder, name)
              THEN WriteFile(f1, PathJoin(S_models_dir, S_autoencoder_encoder),
                             [kind |-> "encoder", site |-> encoder_model,
                              obj |-> heap[encoder_model]])
              ELSE f1
    IN WriteFile(f2, PathJoin(S_models_dir, S_stacked_ensemble),
                 [kind |-> "model", site |-> res["stacked_results"].model,
                  obj |-> heap[res["stacked_results"].model]])

Save ==
    /\ pc = "save"
    /\ dirs' = dirs \cup {S_models_dir}
    /\ IF Range(results) \cup {"best_model_name", "feature_importance", "pca", "encoder_model"}
            \subseteq bound
       THEN LET best_model_result == BestModelResult(best_model_name)
                fs0 == [files |-> files, log |-> write_log]
                fs1 == IF best_model_result # None
                       THEN SaveFound(fs0, best_model_name, best_model_result[1])
                       ELSE fs0
                fs2 == WriteFile(fs1, PathJoin(S_models_dir, S_feature_importance),
                                 [kind |-> "csv", rows |-> feature_importance])
            IN /\ files' = fs2.files
               /\ write_log' = fs2.log
               /\ out' = out \o (IF best_model_result # None
                                 THEN <<"Best model saved", "Stacked ensemble model also saved">>
                                 ELSE <<"Could not find the best model to save.">>)
                             \o <<"Feature importance information saved">>
               /\ bound' = bound \cup {"model_results_map", "best_model_result"}
                                 \cup (IF best_model_result # None
                                       THEN {"best_model", "model_path"} ELSE {})
               /\ pc' = "done"
               /\ UNCHANGED err
       ELSE /\ Raise("NameError")
            /\ UNCHANGED <<bound, out, files, write_log>>
    /\ UNCHANGED <<data_file, heap, fit_log, dataVars, pcaVars, aeVars, evalVars,
                   shapVars, selVars, unit>>

Next ==
    \/ Load \/ PCATrial \/ PCAFinal \/ Autoencoder \/ Evaluate \/ Stack
    \/ ShapXGB \/ ShapDetail \/ ShapLGB \/ Select \/ Save

Spec == Init /\ [][Next]_vars

(************************* free-standing calls *****************************)
\* evaluate_model and the selection applied to arbitrary arguments, outside
\* the run: unit holds the arguments and, once called, the result.

\* the scores the metric routines can return for an arbitrary classifier
UnitScores == [accuracy : 0..MaxF1, precision : 0..MaxF1, recall : 0..MaxF1,
               f1 : 0..MaxF1, auc : 0..MaxF1]

EvaluateArgs ==
    {[op |-> "evaluate_model", model |-> Estimator("Classifier", 0, proba),
      Xtr |-> Matrix("train", NTrain, NFeatures),
      Xte |-> Matrix("test", NTrain, cols),
      o |-> o, ret |-> None] :
        proba \in BOOLEAN, cols \in {NFeatures, NFeatures + 1}, o \in UnitScores}

\* sequences of k distinct positions of 1..n
Arrangements(k, n) ==
    {s \in [1..k -> 1..n] : \A i, j \in 1..k : i # j => s[i] # s[j]}

\* comparison tables of 1..MaxRows rows: any order of distinct display names,
\* any F1 level in each row
SelectArgs ==
    UNION {{[op |-> "select",
             df |-> ComparisonTable([i \in 1..k |-> models[a[i]]],
                                    [i \in 1..k |-> [NoBundle EXCEPT !.f1 = f[i]]]),
             ret |-> None] :
               a \in Arrangements(k, MaxRows), f \in [1..k -> 0..MaxTableF1]} :
           k \in 1..MaxRows}

\* the names a winner can carry: the display names of the comparison table
\* and the keys of model_results_map; two runs, each with its own winner
ModelPathArgs ==
    LET names == Range(models) \cup {model_results_map[i][1] : i \in DOMAIN model_results_map}
    IN {[op |-> "model_path", name |-> a, other |-> b, ret |-> None] :
            a \in names, b \in names}

UnitEvaluate ==
    /\ pc = "unit"
    /\ unit.op = "evaluate_model" /\ unit.ret = None
    /\ LET r == EvaluateModel("model", unit.model, unit.Xtr, unit.Xte,
                              Labels("train", NTrain), Labels("test", NTrain), unit.o)
       IN unit' = [unit EXCEPT !.ret = Some(r)]
    /\ UNCHANGED <<pc, err, out, bound, data_file, heap, fit_log, dataVars, pcaVars,
                   aeVars, evalVars, shapVars, selVars, fsVars>>

UnitSelect ==
    /\ pc = "unit"
    /\ unit.op = "select" /\ unit.ret = None
    /\ unit' = [unit EXCEPT !.ret = Some(SelectBest(unit.df))]
    /\ UNCHANGED <<pc, err, out, bound, data_file, heap, fit_log, dataVars, pcaVars,
                   aeVars, evalVars, shapVars, selVars, fsVars>>

\* model_path computed in two runs, one with winner name, one with other
UnitModelPath ==
    /\ pc = "unit"
    /\ unit.op = "model_path" /\ unit.ret = None
    /\ unit' = [unit EXCEPT !.ret = Some(<<ModelPath(unit.name), ModelPath(unit.other)>>)]
    /\ UNCHANGED <<pc, err, out, bound, data_file, heap, fit_log, dataVars, pcaVars,
                   aeVars, evalVars, shapVars, selVars, fsVars>>

InitUnit ==
    /\ pc = "unit"
    /\ data_file = [state |-> "missing", keys |-> {}, ntest |-> 0]
    /\ unit \in EvaluateArgs \cup SelectArgs \cup ModelPathArgs
    /\ FreshKernel

NextUnit == UnitEvaluate \/ UnitSelect \/ UnitModelPath

SpecUnit == InitUnit /\ [][NextUnit]_vars

(************************* properties: persistence *************************)
Done == pc = "done"

\* position in the comparison table of the configuration the selection chose
Winner == CHOOSE i \in 1..Len(models) : models[i] = best_model_name

EnsemblePath == PathJoin(S_models_dir, S_stacked_ensemble)
PCAPath      == PathJoin(S_models_dir, S_pca_transformer)
EncoderPath  == PathJoin(S_models_dir, S_autoencoder_encoder)
CsvPath      == PathJoin(S_models_dir, S_feature_importance)

\* some file holds the fitted estimator at site
ModelWritten(site) ==
    \E p \in DOMAIN files :
        /\ files[p].kind = "model"
        /\ files[p].site = site
        /\ files[p].obj = heap[site]
        /\ files[p].obj.fitted.count > 0

\* C1: once the persistence step has run, the stacked ensemble model has been
\* written to the models directory, whichever configuration won.
C1_EnsembleAlwaysPersisted ==
    Done => /\ EnsemblePath \in DOMAIN files
            /\ files[EnsemblePath].site = res["stacked_results"].model

\* C2: once the persistence step has run, the fitted model of the winning
\* configuration (the one the selection step named) has been written.
C2_SelectedModelPersisted ==
    Done => ModelWritten(res[results[Winner]].model)

\* C3: after the persistence step, the 7-component projector is written when
\* the winner was trained on the PCA representation, the encoder when it was
\* trained on the autoencoder representation, and neither when it was
\* trained on the original features.
C3_AuxiliaryPersisted ==
    Done =>
      LET on == heap[res[results[Winner]].model].fitted.repr
      IN /\ on = "pca" => /\ PCAPath \in DOMAIN files
                          /\ files[PCAPath].obj.n = PCA_FINAL_COMPONENTS
         /\ on = "ae" => EncoderPath \in DOMAIN files
         /\ on = "orig" => PCAPath \notin DOMAIN files /\ EncoderPath \notin DOMAIN files

(************************* properties: selection ***************************)
UnitSelected  == unit.op = "select" /\ unit.ret # None
UnitEvaluated == unit.op = "evaluate_model" /\ unit.ret # None

\* C4: the selection returns a row whose F1 is >= every row's F1, and among
\* the rows sharing that maximum it returns the first in table order; the
\* name and F1 reported are those of that row.
C4_SelectsFirstMaxF1 ==
    UnitSelected =>
      LET df == unit.df
          r  == unit.ret[1]
      IN \E i \in 1..Len(df) :
            /\ df[i].index = r.idx
            /\ df[i].Model = r.name
            /\ df[i].F1_Score = r.f1
            /\ \A j \in 1..Len(df) : df[j].F1_Score <= df[i].F1_Score
            /\ \A j \in 1..(i - 1) : df[j].F1_Score < df[i].F1_Score

\* three rows, the maximum shared by rows 2 and 3: row 2 is selected
C4_Witness ==
    /\ UnitSelected
    /\ Len(unit.df) = 3
    /\ unit.df[1].F1_Score = 0
    /\ unit.df[2].F1_Score = MaxTableF1
    /\ unit.df[3].F1_Score = MaxTableF1
    /\ unit.ret[1].idx = 1
    /\ unit.ret[1].name = unit.df[2].Model

(************************* properties: evaluate_model **********************)
\* C5: in the bundle evaluate_model returns, AUC is present exactly when the
\* classifier exposes predict_proba; a classifier without it does not make
\* the evaluation fail, its AUC is None (not 0 or any other value), and
\* accuracy, precision, recall, F1 and the fitted model are in the bundle.
C5_AucIffProba ==
    UnitEvaluated =>
      LET r == unit.ret[1]
          b == r.bundle
          dimsOk == unit.Xtr.cols = unit.Xte.cols
      IN /\ dimsOk => r.raised = ""
         /\ r.raised = "" =>
              /\ (b.auc # None) <=> unit.model.proba
              /\ unit.model.proba => b.auc = Some(unit.o.auc)
              /\ ~unit.model.proba => b.auc = None
              /\ b.accuracy = unit.o.accuracy /\ b.precision = unit.o.precision
              /\ b.recall = unit.o.recall /\ b.f1 = unit.o.f1
              /\ b.model = "model" /\ r.fitted.fitted.count = 1

C5_Witness ==
    /\ UnitEvaluated
    /\ ~unit.model.proba
    /\ unit.ret[1].raised = ""
    /\ unit.ret[1].bundle.auc = None
    /\ unit.ret[1].bundle.f1 = MaxF1

(************************* properties: leakage *****************************)
\* C6: every fit call receives the training partition (or a representation
\* derived from it) and training labels, no estimator's fitted state depends
\* on anything else, and the PCA and encoder representations of the test
\* partition were produced by the very fitted state that produced the
\* training representations: a single fit, on the training partition.
C6_NoTestLeak ==
    /\ \A e \in fit_log : e.X = "train" /\ e.y = "train"
    /\ \A s \in DOMAIN heap :
          /\ heap[s].fitted.on \in {"none", "train"}
          /\ heap[s].fitted.count <= 1
          /\ heap[s].fitted.count = 1 => heap[s].fitted.index = X_train.index
    /\ "X_train_pca" \in bound =>
          X_train_pca.by = heap[pca].fitted /\ X_train_pca.by.on = "train"
    /\ "X_test_pca" \in bound =>
          /\ X_test_pca.part = "test"
          /\ X_test_pca.by = X_train_pca.by
          /\ X_test_pca.by = heap[pca].fitted
    /\ "X_train_encoded" \in bound =>
          X_train_encoded.by = heap[encoder_model].fitted /\ X_train_encoded.by.on = "train"
    /\ "X_test_encoded" \in bound =>
          /\ X_test_encoded.part = "test"
          /\ X_test_encoded.by = X_train_encoded.by
          /\ X_test_encoded.by = heap[encoder_model].fitted

\* the whole run has been made: 3 trial PCAs, the final PCA, the
\* autoencoder and the seven classifier fits
C6_Witness ==
    /\ Done
    /\ Cardinality(fit_log) = Len(PCA_TRIALS) + 2 + Len(results)
    /\ X_test_pca.by.count = 1
    /\ X_test_encoded.by.count = 1

(************************* properties: attribution *************************)
\* the rule for one attribution result sv
SubsampleRule(sv) ==
    IF NRows(X_test.index) > SHAP_SAMPLE_SIZE
    THEN /\ NRows(sv.index) = SHAP_SAMPLE_SIZE
         /\ sv.index = Sample(X_test, SHAP_SAMPLE_SIZE, SHAP_RANDOM_STATE).index
         /\ sv.index = X_test_sample.index
    ELSE /\ sv.index = X_test.index
         /\ X_test_sample = X_test

\* the same rule on the row labels themselves, right after the XGBoost cell
SubsampleRows ==
    LET sv == Rows(shap_values.index)
    IN IF NRows(X_test.index) > SHAP_SAMPLE_SIZE
       THEN /\ Len(sv) = SHAP_SAMPLE_SIZE
            /\ sv = Rows(X_test_sample.index)
            /\ Cardinality(Range(sv)) = SHAP_SAMPLE_SIZE
            /\ \A i \in 1..Len(sv) : sv[i] \in 1..NRows(X_test.index)
       ELSE /\ sv = Rows(X_test.index)
            /\ sv = Rows(X_test_sample.index)

\* C7: for both base classifiers, with more than 1000 test rows the
\* attribution values are computed on exactly 1000 distinct test rows drawn
\* with the fixed seed and X_test_sample is those rows in the same order;
\* with 1000 rows or fewer both are the full test set.
C7_SubsampleRule ==
    /\ "shap_values" \in bound => SubsampleRule(shap_values)
    /\ "shap_values_lgb" \in bound =>
          SubsampleRule(shap_values_lgb) /\ shap_values_lgb.index = shap_values.index
    /\ pc = "shap_detail" => SubsampleRows

C7_Witness ==
    /\ Done
    /\ NRows(X_test.index) > SHAP_SAMPLE_SIZE
    /\ NRows(shap_values.index) = SHAP_SAMPLE_SIZE
    /\ NRows(shap_values_lgb.index) = SHAP_SAMPLE_SIZE
    /\ X_test_sample.index.shift # 0

FirstIsMax(col) == \A j \in 1..Len(col) : col[j] <= col[1]

LgbColumn(df) == [i \in 1..Len(df) |-> df[i].SHAP_Importance_LGB]

\* C8 as stated: the first feature of feature_importance has the largest
\* XGBoost mean |SHAP|, and the first row of the merged table has the
\* largest LightGBM mean |SHAP|.
C8_FirstRankedIsMaxForBoth ==
    /\ "feature_importance" \in bound => FirstIsMax(ShapColumn(feature_importance))
    /\ "feature_importance_merged" \in bound =>
          FirstIsMax(LgbColumn(feature_importance_merged))

\* C8 amended: the XGBoost ranking is consistent (feature_importance is in
\* descending order of XGBoost mean |SHAP|, so its first feature has the
\* maximum), and the merged table lists the same features in that same
\* XGBoost order, one row per feature, so that its first row has the XGBoost
\* maximum; its LightGBM column is not ranked.
C8_FirstRankedIsMaxForXGB ==
    /\ "feature_importance" \in bound =>
          /\ Len(feature_importance) = NFeatures
          /\ FirstIsMax(ShapColumn(feature_importance))
          /\ \A i \in 1..(NFeatures - 1) :
                feature_importance[i].SHAP_Importance >= feature_importance[i + 1].SHAP_Importance
    /\ "feature_importance_merged" \in bound =>
          /\ Len(feature_importance_merged) = NFeatures
          /\ FirstIsMax(ShapColumn(feature_importance_merged))
          /\ \A i \in 1..NFeatures :
                /\ feature_importance_merged[i].Feature = feature_importance[i].Feature
                /\ feature_importance_merged[i].SHAP_Importance =
                      feature_importance[i].SHAP_Importance

\* the sort reordered the features, and the first row of the merged table
\* does not hold the LightGBM maximum
C8_Witness ==
    /\ "feature_importance_merged" \in bound
    /\ feature_importance[1].Feature # 1
    /\ feature_importance[1].SHAP_Importance > feature_importance[2].SHAP_Importance
    /\ ~FirstIsMax(LgbColumn(feature_importance_merged))

(************************* properties: error handling **********************)
LoadFails == data_file.state # "ok" \/ data_file.keys # Range(LoadKeys)

\* the failure left one of the four matrices / label vectors unassigned
LoadIncomplete ==
    data_file.state # "ok" \/ ~({"X_train", "X_test", "y_train", "y_test"} \subseteq data_file.keys)

NoEvaluationResult == \A v \in Range(results) : v \notin bound /\ res[v] = NoBundle

LoadReported ==
    /\ "Error loading preprocessed data" \in Range(out)
    /\ "Data loaded successfully" \notin Range(out)
    \* the run was not stopped by the load step: a stop comes from the PCA cell or later
    /\ err # "" => "pca" \in bound
    \* nothing is substituted for what the file did not provide
    /\ \A k \in {"X_train", "X_test", "y_train", "y_test"} :
          k \in bound => data_file.state = "ok" /\ k \in data_file.keys
    /\ "X_test" \in bound => X_test = Matrix("test", data_file.ntest, NFeatures)

\* C9 as stated: after any failed load the failure is reported, nothing is
\* substituted, and no later step produces an evaluation result or writes
\* an output artifact.
C9_FailedLoadProducesNothing ==
    (pc # "load" /\ LoadFails) =>
        LoadReported /\ NoEvaluationResult /\ files = <<>>

\* C9 amended: every failed load is caught and reported without stopping
\* the run at that step and nothing is substituted; when the failure left
\* one of X_train, X_test, y_train, y_test unassigned, no later step
\* produces an evaluation result or writes a file; when only the
\* feature-name list is missing, the run goes on without stopping.
C9_FailedLoadAmended ==
    (pc # "load" /\ LoadFails) =>
        /\ LoadReported
        /\ LoadIncomplete => NoEvaluationResult /\ files = <<>> /\ pc # "done"
        /\ ~LoadIncomplete => err = ""

\* y_test was missing: PCA and the autoencoder ran, the first evaluation stopped the run
C9_Witness ==
    /\ pc = "halted" /\ err = "NameError"
    /\ data_file.state = "ok" /\ "y_test" \notin data_file.keys
    /\ "X_test_encoded" \in bound
    /\ "Error loading preprocessed data" \in Range(out)
    /\ NoEvaluationResult

NameNotInMap ==
    "best_model_name" \in bound /\ MapGet(model_results_map, best_model_name) = {}

\* C10 as stated: when the selected name is not a key of the map, the run
\* stops at the lookup: the persistence step does not complete and the
\* feature-importance table is not written.
C10_MissingKeyTerminates ==
    NameNotInMap => pc # "done" /\ CsvPath \notin DOMAIN files

\* C10 amended: when the selected name is not a key of the map the lookup
\* yields None and the run does not stop: the persistence step completes
\* with the fallback message, writes no model, projector, encoder or
\* ensemble file, and still writes the feature-importance table.
C10_MissingKeyFallsBack ==
    NameNotInMap =>
        /\ err = "" /\ pc \in {"save", "done"}
        /\ Done =>
             /\ "Could not find the best model to save." \in Range(out)
             /\ "Best model saved" \notin Range(out)
             /\ DOMAIN files = {CsvPath}
             /\ files[CsvPath] = [kind |-> "csv", rows |-> feature_importance]

C10_Witness ==
    /\ Done
    /\ best_model_name = N_XGBoost_PCA
    /\ NameNotInMap
    /\ DOMAIN files = {CsvPath}


(************************* properties: found-check **************************)
\* model_results_map.get(best_model_name) returned a bundle
BundleFound == MapGet(model_results_map, best_model_name) # {}

\* position of message m in the printed output, 0 when it was not printed
Position(m) ==
    IF m \in Range(out) THEN CHOOSE i \in 1..Len(out) : out[i] = m ELSE 0

\* C11: the persistence step is guarded by the found-check.  When the bundle
\* of the winner was not found, no model, projector, encoder or ensemble file
\* exists and the fallback message was printed; when it was found the
\* fallback message was not printed and the model files were written; in
\* both cases the feature-importance table is written, after that branch.
C11_FoundCheckGuardsPersistence ==
    Done =>
      /\ ~BundleFound =>
            /\ \A p \in DOMAIN files : files[p].kind \notin {"model", "pca", "encoder"}
            /\ DOMAIN files \cap {ModelPath(best_model_name), PCAPath, EncoderPath,
                                  EnsemblePath} = {}
            /\ Position("Could not find the best model to save.") > 0
            /\ Position("Best model saved") = 0
            /\ Position("Could not find the best model to save.")
                 < Position("Feature importance information saved")
      /\ BundleFound =>
            /\ Position("Could not find the best model to save.") = 0
            /\ {ModelPath(best_model_name), EnsemblePath} \subseteq DOMAIN files
            /\ 0 < Position("Best model saved")
            /\ Position("Best model saved") < Position("Feature importance information saved")
      /\ CsvPath \in DOMAIN files
      /\ files[CsvPath].kind = "csv"
      /\ files[CsvPath].rows = feature_importance
      /\ out[Len(out)] = "Feature importance information saved"
      /\ write_log # <<>> /\ write_log[Len(write_log)] = CsvPath
      /\ Cardinality({k \in 1..Len(write_log) : write_log[k] = CsvPath}) = 1

\* a finished run whose winner was found, and whose model file is on disk
C11_WitnessFound ==
    /\ Done /\ BundleFound
    /\ ModelPath(best_model_name) \in DOMAIN files
    /\ CsvPath \in DOMAIN files


(************************* properties: file name ***************************)
UnitPathed == unit.op = "model_path" /\ unit.ret # None

\* C12: the best-model path is a function of the winner's name alone: the
\* models directory, then the name with every space turned into an
\* underscore and every upper-case letter into its lower-case letter, then
\* .pkl; the same name gives the same path and two different names of the
\* comparison table or of the map give different paths.
C12_PathIsFunctionOfName ==
    UnitPathed =>
      LET n == unit.name
          p == unit.ret[1][1]
          q == unit.ret[1][2]
          d == Len(S_models_dir) + 1
      IN /\ Len(p) = d + Len(n) + Len(S_pkl)
         /\ SubSeq(p, 1, d) = <<"m", "o", "d", "e", "l", "s", "/">>
         /\ SubSeq(p, d + Len(n) + 1, Len(p)) = <<".", "p", "k", "l">>
         /\ \A i \in 1..Len(n) :
               /\ n[i] = " " => p[d + i] = "_"
               /\ \A k \in 1..Len(UpperCase) : n[i] = UpperCase[k] => p[d + i] = LowerCase[k]
               /\ (n[i] # " " /\ n[i] \notin Range(UpperCase)) => p[d + i] = n[i]
         /\ " " \notin Range(p)
         /\ Range(p) \cap Range(UpperCase) = {}
         /\ unit.other = n => q = p
         /\ unit.other # n => q # p

\* two different names, one of them with two spaces, have been mapped
C12_Witness ==
    /\ UnitPathed
    /\ unit.name = K_XGBoost_PCA
    /\ unit.other = N_XGBoost_PCA
    /\ unit.ret[1][1] # unit.ret[1][2]


(************************* properties: comparison table ********************)
\* what each configuration is: its display name, the estimator evaluated
\* and the representation it is trained on
Configurations ==
    << [name |-> N_XGBoost,      kind |-> "XGBClassifier",  repr |-> "orig"],
       [name |-> N_LightGBM,     kind |-> "LGBMClassifier", repr |-> "orig"],
       [name |-> N_XGBoost_PCA,  kind |-> "XGBClassifier",  repr |-> "pca"],
       [name |-> N_LightGBM_PCA, kind |-> "LGBMClassifier", repr |-> "pca"],
       [name |-> N_XGBoost_AE,   kind |-> "XGBClassifier",  repr |-> "ae"],
       [name |-> N_LightGBM_AE,  kind |-> "LGBMClassifier", repr |-> "ae"],
       [name |-> N_Stacked,      kind |-> "Stacking",       repr |-> "orig"] >>

\* the rows of the comparison table that carry display name n
RowsNamed(n) == {j \in 1..Len(comparison_df) : comparison_df[j].Model = n}

\* row j of the comparison table holds the metrics of bundle b
RowHolds(j, b) ==
    /\ comparison_df[j].Accuracy = b.accuracy
    /\ comparison_df[j].Precision = b.precision
    /\ comparison_df[j].Recall = b.recall
    /\ comparison_df[j].F1_Score = b.f1
    /\ comparison_df[j].AUC = b.auc

TableBuilt == "comparison_df" \in bound
TableSorted == pc \in {"save", "done"}

\* C13: once the comparison table exists, seven evaluations have been made,
\* each by its own estimator fitted exactly once; the table has seven rows,
\* one per configuration, and the row named after a configuration holds the
\* metrics of the bundle whose model is that configuration's estimator kind
\* fitted on that configuration's training representation; as built, row i
\* is configuration i, and after the sort by F1 each name still sits with
\* its own metrics while the rows are in descending F1 order.
C13_SevenRowsPairedWithOwnMetrics ==
    TableBuilt =>
      /\ Len(Configurations) = 7
      /\ Cardinality({k \in 1..Len(out) : out[k] = "Performance:"}) = 7
      /\ Cardinality({res[v].model : v \in Range(results)}) = 7
      /\ Cardinality({e \in fit_log : e.site \in {res[v].model : v \in Range(results)}}) = 7
      /\ Len(comparison_df) = 7
      /\ \A i \in 1..7 :
            LET b == res[results[i]]
                m == heap[b.model]
            IN /\ Cardinality(RowsNamed(Configurations[i].name)) = 1
               /\ \A j \in RowsNamed(Configurations[i].name) : RowHolds(j, b)
               /\ m.kind = Configurations[i].kind
               /\ m.fitted.repr = Configurations[i].repr
               /\ m.fitted.on = "train" /\ m.fitted.y = "train"
               /\ m.fitted.count = 1
               /\ ~TableSorted => RowsNamed(Configurations[i].name) = {i}
      /\ TableSorted =>
            \A j \in 1..6 : comparison_df[j].F1_Score >= comparison_df[j + 1].F1_Score

\* a sorted table in which a row has moved: XGBoost+PCA, the only
\* configuration with the high F1, is now first
C13_Witness ==
    /\ TableBuilt /\ TableSorted
    /\ comparison_df[1].Model = N_XGBoost_PCA
    /\ comparison_df[1].F1_Score > comparison_df[2].F1_Score
    /\ res["xgb_pca_results"].f1 > res["xgb_results"].f1


(************************* properties: immutability ************************)
\* the bundles that have been returned by evaluate_model
Returned == Range(results) \cap bound

\* the estimators the returned bundles refer to
BundleModels == {res[v].model : v \in Returned}

\* the estimators handed to the stacked ensemble as base estimators
BaseEstimators == {"estimators.xgb", "estimators.lgb"} \cap DOMAIN heap

\* C14: no step reassigns or modifies X_train, X_test, y_train or y_test once
\* the load step has bound them; no step changes a returned bundle or the
\* fitted state of the estimator it refers to; every bundle and every base
\* estimator of the ensemble has its own estimator instance; so the model a
\* step explains or writes to a file is the estimator as its evaluation left
\* it, fitted exactly once.
C14_InputsAndResultsFrozen ==
    [][ /\ "X_train" \in bound => X_train' = X_train
        /\ "X_test" \in bound => X_test' = X_test
        /\ "y_train" \in bound => y_train' = y_train
        /\ "y_test" \in bound => y_test' = y_test
        /\ \A v \in Returned :
              /\ v \in bound'
              /\ res'[v] = res[v]
              /\ heap'[res[v].model] = heap[res[v].model]
        /\ \A v, w \in Range(results) \cap bound' : v # w => res'[v].model # res'[w].model
        /\ \A s \in {"estimators.xgb", "estimators.lgb"} \cap DOMAIN heap' :
              /\ s \notin {res'[v].model : v \in Range(results) \cap bound'}
              /\ heap'[s].fitted.count = 0
        /\ \A e \in {shap_values', shap_values_lgb'} :
              e.model # "none" =>
                 /\ e.model \in BundleModels
                 /\ heap'[e.model] = heap[e.model]
                 /\ heap'[e.model].fitted.count = 1
        /\ \A p \in DOMAIN files' :
              files'[p].kind = "model" =>
                 /\ files'[p].site \in BundleModels
                 /\ files'[p].obj = heap[files'[p].site]
                 /\ files'[p].obj.fitted.count = 1
      ]_vars

\* a finished run that explained the two base models and wrote a model file
C14_Witness ==
    /\ Done
    /\ shap_values.model = res["xgb_results"].model
    /\ shap_values_lgb.model = res["lgb_results"].model
    /\ \E p \in DOMAIN files : files[p].kind = "model" /\ files[p].obj = heap[files[p].site]
    /\ Returned = Range(results)


(************************* properties: linear projection *******************)
\* the run has got past the PCA cell
ProjectionDone == pc \notin {"load", "pca_trial", "pca_final", "halted", "unit"}

PCAResults == {"xgb_pca_results", "lgb_pca_results"}

\* C15: whenever X_test_pca exists it has as many columns as its projector
\* has components and the rows of X_test, in X_test's order; once the PCA
\* cell is over, after trials with 5, 7 and 9 components, pca is the
\* 7-component projector, X_train_pca and X_test_pca have 7 columns, both
\* come from that one fitted projector, and have the rows and row order of
\* X_train and X_test; the two PCA evaluations are trained on 7 columns and
\* a projector file, if one is written, holds that projector.
C15_SevenComponentsDownstream ==
    /\ "X_test_pca" \in bound =>
          /\ X_test_pca.cols = heap[pca].n
          /\ X_test_pca.index = X_test.index
          /\ NRows(X_test_pca.index) = NRows(X_test.index)
    /\ ProjectionDone =>
          /\ {TrialSite(PCA_TRIALS[t]) : t \in 1..Len(PCA_TRIALS)} \subseteq DOMAIN heap
          /\ heap[TrialSite(PCA_TRIALS[Len(PCA_TRIALS)])].n = 9
          /\ pca \notin {TrialSite(PCA_TRIALS[t]) : t \in 1..Len(PCA_TRIALS)}
          /\ heap[pca].kind = "PCA"
          /\ heap[pca].n = PCA_FINAL_COMPONENTS
          /\ heap[pca].fitted.count = 1
          /\ heap[pca].fitted.on = "train"
          /\ X_train_pca.cols = PCA_FINAL_COMPONENTS
          /\ X_test_pca.cols = PCA_FINAL_COMPONENTS
          /\ X_train_pca.by = heap[pca].fitted
          /\ X_test_pca.by = heap[pca].fitted
          /\ X_train_pca.index = X_train.index
          /\ X_test_pca.index = X_test.index
          /\ X_train_pca.part = "train" /\ X_test_pca.part = "test"
          /\ \A v \in PCAResults \cap bound :
                /\ heap[res[v].model].fitted.repr = "pca"
                /\ heap[res[v].model].fitted.cols = PCA_FINAL_COMPONENTS
                /\ heap[res[v].model].fitted.index = X_train.index
          /\ \A p \in DOMAIN files :
                files[p].kind = "pca" => files[p].obj = heap[pca]

\* both PCA evaluations have run on the projection made after the 9-component
\* trial, on a test set large enough to be subsampled later
C15_Witness ==
    /\ ProjectionDone
    /\ PCAResults \subseteq bound
    /\ heap["PCA(9)"].fitted.count = 1
    /\ X_test_pca.cols = 7
    /\ NRows(X_test_pca.index) = MaxTestRows


(************************* properties: ensemble as winner ******************)
StackedWins == Done /\ best_model_name = N_Stacked

\* C16: when the Stacked Ensemble is the winner, the path made from its
\* display name is models/stacked_ensemble.pkl, the path of the separately
\* written ensemble file: the step writes the ensemble model to that one
\* path twice and then the csv; afterwards that file holds the fitted
\* ensemble, it is the only model file, and no projector or encoder file
\* exists.
C16_EnsembleWinnerWritesOneFile ==
    StackedWins =>
      /\ ModelPath(best_model_name) = EnsemblePath
      /\ EnsemblePath = <<"m", "o", "d", "e", "l", "s", "/", "s", "t", "a", "c", "k", "e", "d",
                          "_", "e", "n", "s", "e", "m", "b", "l", "e", ".", "p", "k", "l">>
      /\ write_log = <<EnsemblePath, EnsemblePath, CsvPath>>
      /\ files[EnsemblePath].kind = "model"
      /\ files[EnsemblePath].site = res["stacked_results"].model
      /\ files[EnsemblePath].obj = heap[res["stacked_results"].model]
      /\ files[EnsemblePath].obj.kind = "Stacking"
      /\ files[EnsemblePath].obj.fitted.count = 1
      /\ Cardinality({p \in DOMAIN files : files[p].kind = "model"}) = 1
      /\ \A p \in DOMAIN files : files[p].kind \notin {"pca", "encoder"}
      /\ DOMAIN files = {EnsemblePath, CsvPath}

\* a finished run won by the Stacked Ensemble, its three writes made
C16_Witness ==
    /\ StackedWins
    /\ Len(write_log) = 3
    /\ EnsemblePath \in DOMAIN files
    /\ res["stacked_results"].f1 = best_model_f1

====
